---- MODULE Spec2Model ----
(***************************************************************************)
(* Persistent chat memory of the PDF question-answering assistant:         *)
(* PersistentChatMemory (src/src/memory.py), the question handler, the     *)
(* sidebar and the redundant backup (src/src/app.py) and the not-indexed   *)
(* guard of RAGSystem (src/src/rag.py).                                    *)
(*                                                                         *)
(* A text is a sequence of tokens.  " " is a whitespace character, "q" and *)
(* "a" are ordinary characters, and the tokens "HumanMessage" and          *)
(* "AIMessage" stand for those substrings, which _verify_and_load looks    *)
(* for in str(item).                                                       *)
(*                                                                         *)
(* A file is [kind, items]: kind "absent" (no file), "invalid" (bytes that *)
(* are not JSON, a truncated write included), "scalar" (JSON that is not   *)
(* an array), "old" (the bytes of an earlier backup) or "list" (a JSON     *)
(* array, whose elements are items).                                       *)
(***************************************************************************)
EXTENDS Naturals, Sequences, FiniteSets, TLC

VARIABLES
    platform,    \* "posix" | "windows": what os.rename does when dst exists
    storeFile,   \* chat_memory.json (self.path)
    bakFile,     \* chat_memory.json.bak
    tmpFile,     \* chat_memory.json.tmp
    backupFile,  \* chat_backup.json
    alive,       \* a session (process) is running
    memory,      \* self.memory.chat_memory.messages
    messages,    \* st.session_state.messages, the UI transcript
    vector_db,   \* RAGSystem.vector_db is set
    last         \* the handler that ran last and how it ended

vars == <<platform, storeFile, bakFile, tmpFile, backupFile, alive, memory,
          messages, vector_db, last>>

----------------------------------------------------------------------------
(* Bounds *)

\* longest JSON array of a store file that is only loaded
MaxItems == 3
\* longest JSON array the store file holds before the first session
MaxPrior == 1
\* cap on the length of the conversation, the transcript and the backup
MaxMsgs == 4

----------------------------------------------------------------------------
(* JSON values *)

Str(t) == [k |-> "str", s |-> t]
\* the key is not there
Missing == [k |-> "missing", s |-> <<>>]
\* a value that is not a string and is truthy (a number)
Num == [k |-> "num", s |-> <<>>]

\* "data" is not there / is a mapping with this content / is not a mapping
NoData == [k |-> "missing", content |-> Missing]
DataMap(c) == [k |-> "map", content |-> c]
DataOther == [k |-> "other", content |-> Missing]

Nested(t, c) == [dict |-> TRUE, type |-> t, data |-> DataMap(c), content |-> Missing]
Flat(t, c) == [dict |-> TRUE, type |-> t, data |-> NoData, content |-> c]
NonDict == [dict |-> FALSE, type |-> "", data |-> NoData, content |-> Missing]

Absent == [kind |-> "absent", items |-> <<>>]
Invalid == [kind |-> "invalid", items |-> <<>>]
Scalar == [kind |-> "scalar", items |-> <<>>]
OldBytes == [kind |-> "old", items |-> <<>>]
List(items) == [kind |-> "list", items |-> items]

Exists(f) == f.kind # "absent"

HumanMessage(t) == [role |-> "human", content |-> t]
AIMessage(t) == [role |-> "ai", content |-> t]

----------------------------------------------------------------------------
(* Python helpers *)

RECURSIVE LStrip(_)
LStrip(t) == IF t # <<>> /\ Head(t) = " " THEN LStrip(Tail(t)) ELSE t

RECURSIVE RStrip(_)
RStrip(t) ==
    IF t # <<>> /\ t[Len(t)] = " " THEN RStrip(SubSeq(t, 1, Len(t) - 1)) ELSE t

\* str.strip()
Strip(t) == RStrip(LStrip(t))

\* bool(value): None and "" are falsy
Truthy(v) == \/ v.k = "num"
             \/ v.k = "str" /\ v.s # <<>>

\* word in text
InText(word, t) == \E i \in 1..Len(t) : t[i] = word

\* word in str(value)
InVal(word, v) == v.k = "str" /\ InText(word, v.s)

\* word in str(item), item a dict
InItem(word, item) ==
    \/ item.type = word
    \/ item.data.k = "map" /\ InVal(word, item.data.content)
    \/ InVal(word, item.content)

\* item.get("data", {}).get("content", item.get("content", "")) raises
\* AttributeError when "data" is there and is not a mapping
GetContentRaises(item) == item.data.k = "other"

\* GetContent without the fallback to the flat "content" key
GetContentNestedOnly(item) ==
    IF item.data.k = "map" /\ item.data.content.k # "missing"
    THEN item.data.content
    ELSE Str(<<>>)

GetContent(item) ==
    IF item.data.k = "map" /\ item.data.content.k # "missing"
    THEN item.data.content
    ELSE IF item.content.k # "missing" THEN item.content ELSE Str(<<>>)

\* message_to_dict(m): {"type": m.type, "data": {"content": m.content, ...}}
message_to_dict(m) == Nested(m.role, Str(m.content))

----------------------------------------------------------------------------
(* PersistentChatMemory: loading *)

\* os.rename(src, dst), src exists: on Windows it raises FileExistsError when
\* dst exists, elsewhere it replaces dst
rename(src, dst, plat) ==
    IF Exists(dst) /\ plat = "windows"
    THEN [raised |-> TRUE, src |-> src, dst |-> dst]
    ELSE [raised |-> FALSE, src |-> Absent, dst |-> src]

\* _backup_and_reset: the rename's error is logged and swallowed, the
\* conversation is cleared either way
_backup_and_reset(store, bak, plat) ==
    LET r == rename(store, bak, plat) IN
    IF Exists(store)
    THEN [memory |-> <<>>, storeFile |-> r.src, bakFile |-> r.dst]
    ELSE [memory |-> <<>>, storeFile |-> store, bakFile |-> bak]

\* lines 57-58 raise AttributeError: "data" is not a mapping, or the content
\* has no strip()
ItemRaises(item) ==
    \/ GetContentRaises(item)
    \/ GetContent(item).k # "str"

\* ItemMessages without the check of line 60
ItemMessagesKeepsEmpty(item) ==
    LET content == Strip(GetContent(item).s) IN
    IF item.type = "human" \/ InItem("HumanMessage", item)
    THEN <<HumanMessage(content)>>
    ELSE IF item.type = "ai" \/ InItem("AIMessage", item)
         THEN <<AIMessage(content)>>
    ELSE <<>>

\* lines 57-66 for one dict that does not raise: the messages it appends
ItemMessages(item) ==
    LET content == Strip(GetContent(item).s) IN
    IF content = <<>> THEN <<>>
    ELSE IF item.type = "human" \/ InItem("HumanMessage", item)
         THEN <<HumanMessage(content)>>
    ELSE IF item.type = "ai" \/ InItem("AIMessage", item)
         THEN <<AIMessage(content)>>
    ELSE <<>>

\* the loop of lines 51-66 over the parsed array
RECURSIVE validated_messages(_, _)
validated_messages(items, acc) ==
    IF items = <<>> THEN [raised |-> FALSE, msgs |-> acc]
    ELSE LET item == Head(items) IN
         IF ~item.dict THEN validated_messages(Tail(items), acc)
         ELSE IF ItemRaises(item) THEN [raised |-> TRUE, msgs |-> <<>>]
         ELSE validated_messages(Tail(items), acc \o ItemMessages(item))

\* _verify_and_load on a fresh (empty) ConversationBufferMemory
_verify_and_load(store, bak, plat) ==
    IF ~Exists(store)
    THEN [memory |-> <<>>, storeFile |-> store, bakFile |-> bak]
    ELSE IF store.kind # "list"
    THEN _backup_and_reset(store, bak, plat)
    ELSE LET v == validated_messages(store.items, <<>>) IN
         IF v.raised
         THEN _backup_and_reset(store, bak, plat)
         ELSE [memory |-> v.msgs, storeFile |-> store, bakFile |-> bak]

----------------------------------------------------------------------------
(* PersistentChatMemory: saving *)

\* lines 137-138: what json.dump writes
Serialized(mem) ==
    LET kept == SelectSeq(mem, LAMBDA m : m.content # <<>>) IN
    List([i \in 1..Len(kept) |-> message_to_dict(kept[i])])

\* the except branch without lines 149-153
CleanupTempSkipped(tmp) == tmp

\* lines 149-153: the except branch removes the temporary file
CleanupTemp(tmp) == Absent

\* where a save can be cut short: an exception raised by one filesystem step
\* ("write", "remove", "rename"), or the process killed while the temporary
\* file is being written, after it is written, or after the store file is
\* removed
Faults == {"none", "write", "remove", "rename",
           "kill_write", "kill_written", "kill_removed"}

\* os.remove(self.path) runs only when the store file exists
FaultApplies(fault, store) == fault = "remove" => Exists(store)

\* _atomic_save
_atomic_save(mem, store, tmp, plat, fault) ==
    LET data == Serialized(mem)
        moved == rename(data, Absent, plat)
    IN
    CASE fault = "write" ->
            [end |-> "raised", storeFile |-> store, tmpFile |-> CleanupTemp(Invalid)]
      [] fault = "kill_write" ->
            [end |-> "killed", storeFile |-> store, tmpFile |-> Invalid]
      [] fault = "kill_written" ->
            [end |-> "killed", storeFile |-> store, tmpFile |-> data]
      [] fault = "remove" ->
            [end |-> "raised", storeFile |-> store, tmpFile |-> CleanupTemp(data)]
      [] fault = "kill_removed" ->
            [end |-> "killed", storeFile |-> Absent, tmpFile |-> data]
      [] fault = "rename" ->
            [end |-> "raised", storeFile |-> Absent, tmpFile |-> CleanupTemp(data)]
      [] OTHER ->
            [end |-> "ok", storeFile |-> moved.dst, tmpFile |-> moved.src]

\* what the message classes of the installed langchain-core do with a content
\* that is not a string: its pydantic v1 models turn a number into its decimal
\* text, its pydantic v2 models raise a ValidationError
Libraries == {"coerces", "rejects"}

\* the content of HumanMessage(content=v) or AIMessage(content=v), v truthy
ContentOf(v) == IF v.k = "str" THEN v.s ELSE <<"5">>

\* line 127 raises: ConversationBufferMemory.save_context builds both messages
\* before it appends them
MessageRaises(q, a, lib) == lib = "rejects" /\ (q.k # "str" \/ a.k # "str")

\* save_context(input_data, output_data), both dicts, q and a the values under
\* "input" and "output"
save_context(mem, store, tmp, plat, q, a, fault, lib) ==
    IF ~Truthy(q) \/ ~Truthy(a)
    THEN [end |-> "invalid", memory |-> mem, storeFile |-> store, tmpFile |-> tmp]
    ELSE IF MessageRaises(q, a, lib)
    THEN [end |-> "rejected", memory |-> mem, storeFile |-> store, tmpFile |-> tmp]
    ELSE LET appended == mem \o <<HumanMessage(ContentOf(q)), AIMessage(ContentOf(a))>>
             s == _atomic_save(appended, store, tmp, plat, fault)
         IN [end |-> s.end, memory |-> appended,
             storeFile |-> s.storeFile, tmpFile |-> s.tmpFile]

\* clear without lines 168-169
clearKeepsFile(store) ==
    [memory |-> <<>>, storeFile |-> store,
     end |-> IF Exists(store) THEN "removed" ELSE "ok"]

\* clear without the test of line 168 and the try of line 167: os.remove
\* raises FileNotFoundError when the store file is not there
clearRemovesUnchecked(store) ==
    [memory |-> <<>>, storeFile |-> Absent,
     end |-> IF Exists(store) THEN "removed" ELSE "raised"]

\* clear: the conversation is emptied, and the store file removed when it is
\* there
clear(store) ==
    [memory |-> <<>>, storeFile |-> Absent,
     end |-> IF Exists(store) THEN "removed" ELSE "ok"]

----------------------------------------------------------------------------
(* app.py: transcript import and redundant backup *)

UIMessage(role, content) == [role |-> role, content |-> content]

\* load_chat_history, lines 63-75: the records of the store file, neither
\* stripped nor validated; an AttributeError on "data" ends the import with
\* what was appended so far (line 88)
RECURSIVE imported(_, _)
imported(items, acc) ==
    IF items = <<>> THEN acc
    ELSE LET msg == Head(items) IN
         IF ~msg.dict THEN imported(Tail(items), acc)
         ELSE IF GetContentRaises(msg) THEN acc
         ELSE LET content == GetContent(msg)
                  role == IF msg.type = "human" THEN "user" ELSE "assistant"
              IN imported(Tail(items),
                          IF Truthy(content)
                          THEN Append(acc, UIMessage(role, content))
                          ELSE acc)

\* load_chat_history on an empty transcript.  The loop of lines 78-86 adds
\* nothing: app.py never imports HumanMessage, so line 82 raises NameError
\* for every message and line 85 swallows it.
load_chat_history(store, mem) ==
    IF store.kind = "list" THEN imported(store.items, <<>>) ELSE <<>>

\* how the backup can fail: reading it, opening it for writing, or writing it
\* (the file is truncated by then)
BackupFaults == {"none", "read", "open", "write"}

\* the backup file after backup_message_to_json; json.load (line 100) raises
\* on a file that is not a JSON array of entries.  The advisory timestamp of
\* an entry is left out.
BackupWritten(backup, user_input, assistant_output, bfault) ==
    IF Exists(backup) /\ (bfault = "read" \/ backup.kind # "list")
    THEN backup
    ELSE IF bfault = "open" THEN backup
    ELSE IF bfault = "write" THEN Invalid
    ELSE List(backup.items \o <<Flat("human", Str(user_input)),
                                 Flat("ai", Str(assistant_output))>>)

\* an exception was raised inside the try of lines 94-116
BackupFailed(backup, bfault) ==
    \/ bfault # "none"
    \/ Exists(backup) /\ backup.kind # "list"

\* backup_message_to_json without the try of line 94 and the except of
\* line 118
backup_message_to_jsonUnguarded(backup, user_input, assistant_output, bfault) ==
    [file |-> BackupWritten(backup, user_input, assistant_output, bfault),
     end |-> IF BackupFailed(backup, bfault) THEN "raised" ELSE "appended"]

\* backup_message_to_json; every error is logged and swallowed (line 118)
backup_message_to_json(backup, user_input, assistant_output, bfault) ==
    [file |-> BackupWritten(backup, user_input, assistant_output, bfault),
     end |-> IF BackupFailed(backup, bfault) THEN "failed" ELSE "appended"]

----------------------------------------------------------------------------
(* Inputs *)

\* what st.chat_input returns: a text that is not blank
Prompts == {<<"q">>}

\* what the completion service returns
Responses == {<<>>, <<"a">>, <<"HumanMessage">>}

\* what a caller of save_context passes under "input" and under "output"
Inputs == {Missing, Str(<<>>), Str(<<"q">>)}
Outputs == {Str(<<>>), Str(<<" ">>), Str(<<"a">>), Str(<<"a", " ">>),
            Str(<<"HumanMessage">>)}

\* the pairs of values a caller passes: every pair of the texts above, and a
\* number as the user's text
Turns == (Inputs \X Outputs) \cup {<<Num, Str(<<"a">>)>>}

\* the elements of a store file written before the first session
Items == {
    Nested("human", Str(<<"q">>)),
    Flat("ai", Str(<<"a">>)),
    Nested("ai", Str(<<"HumanMessage">>)),
    Nested("human", Str(<<>>)),
    Nested("human", Str(<<" ">>)),
    Nested("system", Str(<<"q">>)),
    NonDict,
    [dict |-> TRUE, type |-> "human", data |-> DataOther, content |-> Missing],
    Nested("ai", Num)
}

RECURSIVE SeqsUpTo(_, _)
SeqsUpTo(S, n) ==
    IF n = 0 THEN {<<>>}
    ELSE LET shorter == SeqsUpTo(S, n - 1) IN
         shorter \cup {Append(q, x) : q \in shorter, x \in S}

Stores(n) == {Absent, Invalid, Scalar} \cup {List(q) : q \in SeqsUpTo(Items, n)}

----------------------------------------------------------------------------
(* The state machine *)

\* what "last" records: the handler, how it ended, the fault that cut its
\* save short, what kind of values save_context was given, and how the
\* redundant backup went
Ended(op, end, fault) ==
    [op |-> op, end |-> end, fault |-> fault, args |-> "none", backup |-> "none"]

\* both values passed to save_context are non-empty strings, or not
Args(q, a) ==
    IF q.k = "str" /\ q.s # <<>> /\ a.k = "str" /\ a.s # <<>> THEN "texts" ELSE "other"

EndedSave(op, end, fault, q, a) == [Ended(op, end, fault) EXCEPT !.args = Args(q, a)]

Start(stores) ==
    /\ platform \in {"posix", "windows"}
    /\ storeFile \in stores
    /\ bakFile \in {Absent, OldBytes}
    /\ tmpFile = Absent
    /\ backupFile = Absent
    /\ alive = FALSE
    /\ memory = <<>>
    /\ messages = <<>>
    /\ vector_db = FALSE
    /\ last = Ended("none", "none", "none")

Init == Start(Stores(MaxPrior))

InitLoad == Start(Stores(MaxItems))

\* PersistentChatMemory(path): a fresh instance on the store path
Construct ==
    /\ ~alive
    /\ LET l == _verify_and_load(storeFile, bakFile, platform) IN
       /\ memory' = l.memory
       /\ storeFile' = l.storeFile
       /\ bakFile' = l.bakFile
    /\ alive' = TRUE
    /\ last' = Ended("construct", "ok", "none")
    /\ UNCHANGED <<platform, tmpFile, backupFile, messages, vector_db>>

\* initialize_session_state of a new session: RAGSystem(), then
\* PersistentChatMemory(path), then load_chat_history on the file it left
InitializeSessionState ==
    /\ ~alive
    /\ LET l == _verify_and_load(storeFile, bakFile, platform) IN
       /\ memory' = l.memory
       /\ storeFile' = l.storeFile
       /\ bakFile' = l.bakFile
       /\ messages' = load_chat_history(l.storeFile, l.memory)
    /\ alive' = TRUE
    /\ vector_db' = FALSE
    /\ last' = Ended("initialize", "ok", "none")
    /\ UNCHANGED <<platform, tmpFile, backupFile>>

\* ProcessPdf with vector_db assigned before the step that can raise
ProcessPdfAssignsFirst ==
    /\ alive
    /\ \E ok \in BOOLEAN :
        /\ vector_db' = TRUE
        /\ last' = Ended("process_pdf", IF ok THEN "ok" ELSE "raised", "none")
    /\ UNCHANGED <<platform, storeFile, bakFile, tmpFile, backupFile, alive,
                   memory, messages>>

\* main, lines 148-160: process_pdf sets vector_db only when it succeeds
ProcessPdf ==
    /\ alive
    /\ \E ok \in BOOLEAN :
        /\ vector_db' = (vector_db \/ ok)
        /\ last' = Ended("process_pdf", IF ok THEN "ok" ELSE "raised", "none")
    /\ UNCHANGED <<platform, storeFile, bakFile, tmpFile, backupFile, alive,
                   memory, messages>>

\* the process was killed inside a handler: the session is lost
Killed(store, tmp, op, fault) ==
    /\ alive' = FALSE
    /\ memory' = <<>>
    /\ messages' = <<>>
    /\ vector_db' = FALSE
    /\ storeFile' = store
    /\ tmpFile' = tmp
    /\ last' = Ended(op, "killed", fault)
    /\ UNCHANGED <<platform, bakFile, backupFile>>

\* AskRaises with the prompt appended to the transcript before line 175
AskRaisesKeepsPrompt ==
    /\ alive
    /\ \E cause \in {"retrieval_raised", "completion_raised"}, prompt \in Prompts :
        /\ last' = Ended("ask", IF ~vector_db THEN "not_indexed" ELSE cause, "none")
        /\ messages' = IF Len(messages) < MaxMsgs
                       THEN Append(messages, UIMessage("user", Str(prompt)))
                       ELSE messages
    /\ UNCHANGED <<platform, storeFile, bakFile, tmpFile, backupFile, alive,
                   memory, vector_db>>

\* main, lines 168-211, when rag.query (line 175) or chain.invoke (line 189)
\* raises: line 209 reports it
AskRaises ==
    /\ alive
    /\ \E cause \in {"retrieval_raised", "completion_raised"} :
        last' = Ended("ask", IF ~vector_db THEN "not_indexed" ELSE cause, "none")
    /\ UNCHANGED <<platform, storeFile, bakFile, tmpFile, backupFile, alive,
                   memory, messages, vector_db>>

\* main, lines 168-211, when the completion service answers
AskAnswered ==
    /\ alive
    /\ vector_db
    /\ Len(memory) + 2 <= MaxMsgs
    /\ Len(messages) + 2 <= MaxMsgs
    /\ Len(backupFile.items) + 2 <= MaxMsgs
    /\ \E prompt \in Prompts, response \in Responses, fault \in Faults :
        /\ FaultApplies(fault, storeFile)
        /\ Truthy(Str(response)) \/ fault = "none"
        /\ LET s == save_context(memory, storeFile, tmpFile, platform,
                                 Str(prompt), Str(response), fault, "coerces")
           IN IF s.end = "killed"
              THEN Killed(s.storeFile, s.tmpFile, "ask", fault)
              ELSE /\ messages' = messages \o
                           <<UIMessage("user", Str(prompt)),
                             UIMessage("assistant", Str(response))>>
                   /\ memory' = s.memory
                   /\ storeFile' = s.storeFile
                   /\ tmpFile' = s.tmpFile
                   /\ IF s.end = "ok"
                      THEN \E bfault \in BackupFaults :
                             LET b == backup_message_to_json(
                                        backupFile, prompt, response, bfault)
                             IN /\ backupFile' = b.file
                                /\ last' = [EndedSave("ask",
                                                IF b.end = "raised" THEN "raised" ELSE "ok",
                                                fault, Str(prompt), Str(response))
                                            EXCEPT !.backup = b.end]
                      ELSE /\ backupFile' = backupFile
                           /\ last' = EndedSave("ask", s.end, fault,
                                                Str(prompt), Str(response))
                   /\ UNCHANGED <<platform, bakFile, alive, vector_db>>

\* save_context called on the instance
SaveContext ==
    /\ alive
    /\ Len(memory) + 2 <= MaxMsgs
    /\ \E t \in Turns, fault \in Faults, lib \in Libraries : LET q == t[1] a == t[2] IN
        /\ FaultApplies(fault, storeFile)
        /\ (Truthy(q) /\ Truthy(a) /\ ~MessageRaises(q, a, lib)) \/ fault = "none"
        /\ (q.k = "str" /\ a.k = "str") => lib = "coerces"
        /\ LET s == save_context(memory, storeFile, tmpFile, platform, q, a, fault, lib)
           IN IF s.end = "killed"
              THEN Killed(s.storeFile, s.tmpFile, "save_context", fault)
              ELSE /\ memory' = s.memory
                   /\ storeFile' = s.storeFile
                   /\ tmpFile' = s.tmpFile
                   /\ last' = EndedSave("save_context", s.end, fault, q, a)
                   /\ UNCHANGED <<platform, bakFile, backupFile, alive,
                                  messages, vector_db>>

\* clear called on the instance
ClearMemory ==
    /\ alive
    /\ LET c == clear(storeFile) IN
       /\ memory' = c.memory
       /\ storeFile' = c.storeFile
    /\ last' = Ended("clear", clear(storeFile).end, "none")
    /\ UNCHANGED <<platform, bakFile, tmpFile, backupFile, alive, messages,
                   vector_db>>

\* setup_sidebar, lines 129-133: the "clear memory" button
Clear ==
    /\ alive
    /\ LET c == clear(storeFile) IN
       /\ memory' = c.memory
       /\ storeFile' = c.storeFile
    /\ messages' = <<>>
    /\ last' = Ended("clear", clear(storeFile).end, "none")
    /\ UNCHANGED <<platform, bakFile, tmpFile, backupFile, alive, vector_db>>

\* the process ends between two handlers
Terminate ==
    /\ alive
    /\ alive' = FALSE
    /\ memory' = <<>>
    /\ messages' = <<>>
    /\ vector_db' = FALSE
    /\ last' = Ended("terminate", "ok", "none")
    /\ UNCHANGED <<platform, storeFile, bakFile, tmpFile, backupFile>>

\* the application: one interactive session after another
Next ==
    \/ InitializeSessionState
    \/ ProcessPdf
    \/ AskRaises
    \/ AskAnswered
    \/ Clear
    \/ Terminate

Spec == Init /\ [][Next]_vars

\* PersistentChatMemory alone: one instance after another on the store path
NextMemory ==
    \/ Construct
    \/ SaveContext
    \/ ClearMemory
    \/ Terminate

SpecMemory == Init /\ [][NextMemory]_vars

\* loading alone: store files of every shape, read by one instance or session
\* after another
NextLoad ==
    \/ Construct
    \/ InitializeSessionState
    \/ Terminate

SpecLoad == InitLoad /\ [][NextLoad]_vars

----------------------------------------------------------------------------
(* Properties *)

\* the conversation a fresh instance on the store path loads
FreshLoad == _verify_and_load(storeFile, bakFile, platform).memory

\* the conversation a fresh instance loads from a store file holding f
LoadOf(f) == _verify_and_load(f, bakFile, platform).memory

IsPrefix(p, q) == Len(p) <= Len(q) /\ SubSeq(q, 1, Len(p)) = p

\* not empty and not only whitespace
NonBlank(t) == Strip(t) # <<>>

SaveEnded(l) == l.op \in {"save_context", "ask"} /\ l.fault # "none"

Loaded(l) == l.op \in {"construct", "initialize"}

\* C1: a save that fails or is interrupted at any filesystem step, with a
\* store file (a JSON array) in place before it, leaves at the store path
\* either the whole old content or the whole new content, and a fresh instance
\* loads the old or the new conversation.
C1_SaveIsAtomic ==
    [][(SaveEnded(last') /\ storeFile.kind = "list" /\ FreshLoad # <<>>) =>
        \E t \in Turns : LET q == t[1] a == t[2] IN
            LET new == Serialized(memory \o <<HumanMessage(ContentOf(q)),
                                               AIMessage(ContentOf(a))>>)
            IN /\ storeFile' \in {storeFile, new}
               /\ FreshLoad' \in {FreshLoad, LoadOf(new)}]_vars

\* C2: after save_context(Q, A) returns without raising, a fresh instance
\* loads a conversation that ends with User(Q), Assistant(A) and begins with
\* the messages the store held before, in their order.
C2_WriteThrough ==
    [][(last'.op = "save_context" /\ last'.end = "ok") =>
        LET loaded == FreshLoad'
            n == Len(loaded)
            m == Len(memory')
        IN /\ n >= 2
           /\ loaded[n - 1] = memory'[m - 1]
           /\ loaded[n] = memory'[m]
           /\ loaded[n - 1].role = "human"
           /\ loaded[n].role = "ai"
           /\ IsPrefix(FreshLoad, SubSeq(loaded, 1, n - 2))]_vars

\* C3: a conversation of valid messages (non-blank content) that was saved
\* is loaded by a fresh instance with the same messages, contents, order and
\* roles.
C3_RoundTrip ==
    (/\ last.op = "save_context"
     /\ last.end = "ok"
     /\ \A i \in 1..Len(memory) : NonBlank(memory[i].content))
    => FreshLoad = memory

\* C4: a store file that is not a JSON array is loaded without an error, the
\* conversation is empty afterwards and the .bak file holds the bytes the
\* store file held, also when a .bak file was there before.
C4_CorruptionRecovery ==
    [][(Loaded(last') /\ Exists(storeFile) /\ storeFile.kind # "list") =>
        /\ last'.end = "ok"
        /\ memory' = <<>>
        /\ bakFile' = storeFile]_vars

\* the text of a record's content, nested or flat
RecordText(item) == GetContent(item).s

HasText(item) == item.dict /\ ~GetContentRaises(item) /\ GetContent(item).k = "str"

\* a human or ai record with non-blank content
ValidRecord(item) ==
    HasText(item) /\ item.type \in {"human", "ai"} /\ NonBlank(RecordText(item))

\* a record with no content
EmptyRecord(item) == HasText(item) /\ ~NonBlank(RecordText(item))

\* an array of valid records, records with empty content and non-dict entries
Mixed(items) ==
    \A i \in 1..Len(items) :
        ~items[i].dict \/ ValidRecord(items[i]) \/ EmptyRecord(items[i])

BadShape(item) == item.dict /\ ItemRaises(item)

WellShaped(item) == ~BadShape(item)

\* C6: a dict record of unrecognized shape is dropped alone: the other valid
\* records of the array are loaded and the store file is not moved to .bak.
C6_BadRecordDropped ==
    [][(/\ Loaded(last')
        /\ storeFile.kind = "list"
        /\ \E i \in 1..Len(storeFile.items) : BadShape(storeFile.items[i])
        /\ \E i \in 1..Len(storeFile.items) : ValidRecord(storeFile.items[i])) =>
        /\ storeFile' = storeFile
        /\ bakFile' = bakFile
        /\ memory' = validated_messages(
                        SelectSeq(storeFile.items, WellShaped), <<>>).msgs]_vars

\* C7: no message with empty or whitespace-only content is in the in-memory
\* conversation or in the store file that save wrote.
C7_NoBlankMessage ==
    /\ alive => \A i \in 1..Len(memory) : NonBlank(memory[i].content)
    /\ (last.op = "save_context" /\ last.end = "ok") =>
        \A i \in 1..Len(storeFile.items) : NonBlank(RecordText(storeFile.items[i]))

AskFailed(l) ==
    /\ l.op = "ask"
    /\ l.end \in {"not_indexed", "retrieval_raised", "completion_raised"}

\* C9: a question whose retrieval or completion fails leaves the in-memory
\* conversation, the store file, the backup file and the transcript as they
\* were, and the conversation of a running session grows only by a question
\* that was answered.
C9_FailedTurnNotRecorded ==
    [][/\ AskFailed(last') =>
            UNCHANGED <<memory, storeFile, backupFile, messages>>
       /\ (alive /\ memory' # memory /\ memory' # <<>>) =>
            (last'.op = "ask" /\ last'.end \in {"ok", "raised"})]_vars

C9_Witness ==
    /\ last = Ended("ask", "completion_raised", "none")
    /\ memory # <<>>
    /\ Exists(storeFile)
    /\ Exists(backupFile)

SaveFailed(l) == l.op = "save_context" /\ l.fault \in {"write", "remove", "rename"}

C11_TurnValidation ==
    [][(last'.op = "save_context" /\ last'.args = "other" /\ last'.fault = "none") =>
        /\ last'.end \in {"invalid", "rejected"}
        /\ UNCHANGED <<memory, storeFile>>]_vars

IsNested(item) == item.dict /\ item.data.k = "map" /\ item.content.k = "missing"
IsFlat(item) == item.dict /\ item.data.k = "missing" /\ item.content.k # "missing"

\* the same record in the other shape
Reshaped(item) ==
    IF IsNested(item) THEN Flat(item.type, item.data.content)
    ELSE IF IsFlat(item) THEN Nested(item.type, item.content)
    ELSE item

ReshapedAll(items) == [i \in 1..Len(items) |-> Reshaped(items[i])]

\* C12: a load of a JSON array gives the same conversation, and recovers in
\* the same cases, as a load of the array with every flat record {type,
\* content} written nested {type, data: {content}} and every nested record
\* written flat.
C12_LegacyShape ==
    [][(Loaded(last') /\ storeFile.kind = "list") =>
        LET other == _verify_and_load(List(ReshapedAll(storeFile.items)),
                                      bakFile, platform)
        IN /\ memory' = other.memory
           /\ Exists(storeFile') = Exists(other.storeFile)
           /\ Exists(bakFile') = Exists(other.bakFile)]_vars

C12_Witness ==
    /\ Loaded(last)
    /\ storeFile.kind = "list"
    /\ \E i, j \in 1..Len(storeFile.items) :
        /\ storeFile.items[i] = Nested("human", Str(<<"q">>))
        /\ storeFile.items[j] = Flat("ai", Str(<<"a">>))
    /\ memory = <<HumanMessage(<<"q">>), AIMessage(<<"a">>)>>

\* C13: the transcript that initialize_session_state builds from the store
\* file and the loaded conversation never holds two messages with the same
\* role and the same content.
C13_NoDuplicates ==
    last.op = "initialize" =>
        \A i, j \in 1..Len(messages) : i < j => messages[i] # messages[j]

\* C14: the index is set only by a process_pdf that succeeded, and a question
\* asked while it is not set (before any process_pdf, or after one that
\* failed) ends with the not-indexed message: the session goes on, and the
\* conversation, the transcript and the store file are as before.
C14_NotIndexedGuard ==
    [][/\ (vector_db' /\ ~vector_db) => last' = Ended("process_pdf", "ok", "none")
       /\ (last'.op = "ask" /\ ~vector_db) =>
            /\ last'.end = "not_indexed"
            /\ alive'
            /\ UNCHANGED <<memory, messages, storeFile, vector_db>>]_vars

C14_Witness ==
    /\ last = Ended("ask", "not_indexed", "none")
    /\ alive
    /\ ~vector_db

C16_RoleFromType ==
    [][(Loaded(last') /\ storeFile.kind = "list"
        /\ \A i \in 1..Len(storeFile.items) : ValidRecord(storeFile.items[i])) =>
        /\ Len(memory') = Len(storeFile.items)
        /\ \A i \in 1..Len(storeFile.items) :
            memory'[i].role = storeFile.items[i].type]_vars

\* what chat_backup.json holds after the pair is appended to it
BackupWith(backup, prompt, response) ==
    List(backup.items \o <<Flat("human", Str(prompt)), Flat("ai", Str(response))>>)

\* the completion answered: the handler reached line 206
Answered(l) == l.op = "ask" /\ l.end \in {"ok", "invalid", "raised"}

\* C17: after every question whose completion answered, and whose backup did
\* not itself fail, the backup file holds its former entries followed by the
\* question and the answer, whether the save to the store file succeeded or
\* not; every other step leaves the backup file as it was.
C17_BackupIndependent ==
    [][IF Answered(last') /\ last'.backup # "failed"
       THEN \E prompt \in Prompts, response \in Responses :
               backupFile' = BackupWith(backupFile, prompt, response)
       ELSE last'.backup # "failed" => backupFile' = backupFile]_vars

\* C18: when the backup of an answered and saved turn fails, the handler ends
\* normally, and the turn is the end of the in-memory conversation and of the
\* store file.
C18_BackupFailureSwallowed ==
    [][(last'.op = "ask" /\ last'.backup \in {"failed", "raised"}) =>
        /\ last'.end = "ok"
        /\ alive'
        /\ \E prompt \in Prompts, response \in Responses :
            LET turn == <<HumanMessage(prompt), AIMessage(response)>> IN
            /\ memory' = memory \o turn
            /\ storeFile'.kind = "list"
            /\ LET n == Len(storeFile'.items) IN
               /\ n >= 2
               /\ SubSeq(storeFile'.items, n - 1, n) =
                    <<message_to_dict(turn[1]), message_to_dict(turn[2])>>]_vars

C18_Witness ==
    /\ last.op = "ask" /\ last.end = "ok" /\ last.backup = "failed"
    /\ backupFile = Invalid
    /\ Len(memory) = 4

\* C19: a load and a clear leave the store file and the in-memory
\* conversation in step (a fresh instance would load exactly the
\* conversation); a save that succeeds from such a state leaves them in step,
\* with the store file in place; and the store file goes away only by a
\* clear, a recovery or a save that was cut short.
C19_MemoryAndStoreInStep ==
    [][/\ (Loaded(last') \/ last'.op = "clear") => FreshLoad' = memory'
       /\ (last'.op = "save_context" /\ last'.end = "ok" /\ FreshLoad = memory) =>
            /\ FreshLoad' = memory'
            /\ Exists(storeFile')
       /\ (Exists(storeFile) /\ ~Exists(storeFile') /\ last'.fault = "none") =>
            last'.op \in {"clear", "construct"}]_vars

====
